---- MODULE Spec2Model ----
(***************************************************************************)
(* Model of convert_to_pdf.py: a straight-line script that reads           *)
(* PWA_DEPLOYMENT_GUIDE.md, renders it with markdown.markdown, fills a     *)
(* fixed HTML template, writes PWA_DEPLOYMENT_GUIDE_PRINTABLE.html and     *)
(* prints two status lines.  No exception is caught anywhere, so every     *)
(* call that can raise is a point where the run ends with status 1.        *)
(*                                                                         *)
(* Text is modelled as a sequence of chunks (strings); a file is a record  *)
(* [exists, data].  The file system, the interpreter's standard output     *)
(* and the markdown package are the environment of the script.             *)
(***************************************************************************)
EXTENDS Integers, Sequences, FiniteSets, TLC

\* ------------------------------------------------------------------ bounds
MaxBlocks == 2      \* longest markdown input, in blocks

\* ------------------------------------------------------- markdown inputs
\* Source blocks of a markdown document (blocks are separated by blank lines)
ParaSrc == "a & b"
RawBodySrc == "<body>"

Blocks == {ParaSrc, RawBodySrc}

Inputs == UNION {[1..n -> Blocks] : n \in 0..MaxBlocks}

\* ---------------------------------------------------------------- renderer
\* markdown.markdown(md, extensions=['fenced_code','tables']) on one block:
\* a paragraph is wrapped in <p> with its bare ampersand entity-escaped,
\* and block-level raw HTML is passed through unchanged.
RenderBlock(b) ==
    CASE b = ParaSrc    -> "<p>a &amp; b</p>"
      [] b = RawBodySrc -> "<body>"

\* The rendered blocks joined by single newlines; the empty document renders
\* to the empty string.
RECURSIVE Render(_)
Render(md) ==
    IF md = <<>> THEN <<>>
    ELSE IF Len(md) = 1 THEN <<RenderBlock(md[1])>>
    ELSE <<RenderBlock(md[1]), "\n">> \o Render(Tail(md))

\* ---------------------------------------------------------------- template
\* The text of the f-string before the substitution point (lines 13-99) ...
TemplateHead ==
    << "\n<!DOCTYPE html>\n<html>\n",
       "<head>...<style>@page { size: A4; margin: 2cm; } ...</style>\n</head>\n",
       "<body>",
       "\n" >>

\* ... and after it (lines 99-102).
TemplateTail == << "\n", "</body>", "\n</html>\n" >>

\* The fragment substituted without the closing part of the template.
StyledHtml_NoTail(html) == TemplateHead \o html \o << "\n" >>

\* The substitution point placed in the head, before the <body> tag.
StyledHtml_Misplaced(html) ==
    SubSeq(TemplateHead, 1, 2) \o html \o SubSeq(TemplateHead, 3, 4) \o TemplateTail

StyledHtml(html) == TemplateHead \o html \o TemplateTail

\* ------------------------------------------------------------------ helpers
Prefix(s, k) == SubSeq(s, 1, k)

RECURSIVE Count(_, _)
Count(x, s) ==
    IF s = <<>> THEN 0
    ELSE (IF Head(s) = x THEN 1 ELSE 0) + Count(x, Tail(s))

NoFile == [exists |-> FALSE, data |-> <<>>]

File(d) == [exists |-> TRUE, data |-> d]

\* The status lines of lines 108 and 109
Line1 == "CHECK Created PWA_DEPLOYMENT_GUIDE_PRINTABLE.html"
Line2 == "PAGE Open this file in your browser and use 'Print to PDF' (Cmd+P)"

\* The order of the statements of the script
StepOrder ==
    << "import", "open_in", "read", "close_in", "render", "template",
       "open_out", "write", "close_out", "print1", "print2" >>

StepIndex(s) == CHOOSE i \in 1..Len(StepOrder) : StepOrder[i] = s

\* -------------------------------------------------------------------- state
VARIABLES
    pc,            \* the statement to execute next; "done" / "failed" when
                   \* the process has exited; "idle" between two runs
    inState,       \* input file: "missing", "denied" (not readable), "ok"
    inText,        \* content of the input file when it exists
    out,           \* the output file
    md_content,    \* line 7
    html_content,  \* line 10
    styled_html,   \* line 13
    handles,       \* open file handles
    stdout,        \* lines emitted to standard output by the current run
    exitStatus,    \* -1 while running, then the exit status of the process
    failedAt,      \* the statement that raised, "" if none
    steps,         \* statements completed by the current run, in order
    outAtStart,    \* the output file when the current run started
    lastOut        \* the output file at the end of the first successful run
                   \* since the input text was last edited; NoFile if none

vars == << pc, inState, inText, out, md_content, html_content,
           styled_html, handles, stdout, exitStatus, failedAt, steps,
           outAtStart, lastOut >>

env == << inState, inText >>
locals == << md_content, html_content, styled_html >>
hist == << outAtStart, lastOut >>

InStates == {"missing", "denied", "ok"}

PriorOutputs == {NoFile, File(<<"old">>)}

Init ==
    /\ pc = "import"
    /\ inState \in InStates
    /\ inText \in Inputs
    /\ out \in PriorOutputs
    /\ md_content = <<>>
    /\ html_content = <<>>
    /\ styled_html = <<>>
    /\ handles = {}
    /\ stdout = <<>>
    /\ exitStatus = -1
    /\ failedAt = ""
    /\ steps = <<>>
    /\ outAtStart = out
    /\ lastOut = NoFile

\* An uncaught exception at statement s: the traceback goes to the error
\* stream and the interpreter exits with status 1.
Raise(s) ==
    /\ pc' = "failed"
    /\ failedAt' = s
    /\ exitStatus' = 1

Advance(s, next) ==
    /\ pc' = next
    /\ steps' = Append(steps, s)
    /\ UNCHANGED << failedAt, exitStatus >>


\* ------------------------------------------------------------------ actions
\* Line 2: import markdown
Import ==
    /\ pc = "import"
    /\ \/ Advance("import", "open_in")
       \/ Raise("import") /\ UNCHANGED steps
    /\ UNCHANGED << env, out, locals, handles, stdout, hist >>

\* The output file opened for writing ahead of the input file: a failing
\* open of the input then finds the output already truncated.
OpenIn_TruncatesOutput ==
    /\ pc = "open_in"
    /\ IF inState # "ok"
       THEN /\ Raise("open_in")
            /\ out' = File(<<>>)
            /\ UNCHANGED << steps, handles >>
       ELSE /\ Advance("open_in", "read")
            /\ handles' = handles \cup {"in"}
            /\ UNCHANGED out
    /\ UNCHANGED << env, locals, stdout, hist >>

\* Line 6: open('PWA_DEPLOYMENT_GUIDE.md', 'r')
OpenIn ==
    /\ pc = "open_in"
    /\ IF inState # "ok"
       THEN /\ Raise("open_in")
            /\ UNCHANGED << steps, handles >>
       ELSE /\ Advance("open_in", "read")
            /\ handles' = handles \cup {"in"}
    /\ UNCHANGED << env, out, locals, stdout, hist >>

\* The file read without a with block: an exception leaves the handle open.
Read_Leak ==
    /\ pc = "read"
    /\ \/ /\ Advance("read", "close_in")
          /\ md_content' = inText
       \/ /\ Raise("read")
          /\ UNCHANGED << steps, md_content >>
    /\ UNCHANGED << env, out, html_content, styled_html, handles, stdout, hist >>

\* Line 7: md_content = f.read().  A decoding error or an I/O error raises
\* inside the with block, whose exit closes the handle.
Read ==
    /\ pc = "read"
    /\ \/ /\ Advance("read", "close_in")
          /\ md_content' = inText
          /\ UNCHANGED handles
       \/ /\ Raise("read")
          /\ handles' = handles \ {"in"}
          /\ UNCHANGED << steps, md_content >>
    /\ UNCHANGED << env, out, html_content, styled_html, stdout, hist >>

\* Lines 6-7: leaving the with block closes the read handle
CloseIn ==
    /\ pc = "close_in"
    /\ Advance("close_in", "render")
    /\ handles' = handles \ {"in"}
    /\ UNCHANGED << env, out, locals, stdout, hist >>

\* The output file opened for writing at the top of the script: it is
\* already truncated when the rendering runs.
RenderStep_OutputFirst ==
    /\ pc = "render"
    /\ \/ /\ Advance("render", "template")
          /\ html_content' = Render(md_content)
       \/ /\ Raise("render")
          /\ UNCHANGED << steps, html_content >>
    /\ out' = File(<<>>)
    /\ UNCHANGED << env, md_content, styled_html, handles, stdout, hist >>

\* Line 10: html_content = markdown.markdown(md_content, ...)
RenderStep ==
    /\ pc = "render"
    /\ \/ /\ Advance("render", "template")
          /\ html_content' = Render(md_content)
       \/ /\ Raise("render")
          /\ UNCHANGED << steps, html_content >>
    /\ UNCHANGED << env, out, md_content, styled_html, handles, stdout, hist >>

\* A brace of the style sheet left undoubled in the f-string: evaluating it
\* raises.
Template_Raises ==
    /\ pc = "template"
    /\ Raise("template")
    /\ UNCHANGED << env, out, locals, handles, stdout, steps, hist >>

\* Lines 13-102: styled_html = f"""...{html_content}..."""
Template ==
    /\ pc = "template"
    /\ Advance("template", "open_out")
    /\ styled_html' = StyledHtml(html_content)
    /\ UNCHANGED << env, out, md_content, html_content, handles, stdout, hist >>

\* The failure of the open caught and ignored: the script goes on to the
\* prints and ends normally.
OpenOut_Swallow ==
    /\ pc = "open_out"
    /\ \/ /\ Advance("open_out", "write")
          /\ out' = File(<<>>)
          /\ handles' = handles \cup {"out"}
       \/ /\ pc' = "print1"
          /\ UNCHANGED << steps, failedAt, exitStatus, out, handles >>
    /\ UNCHANGED << env, locals, stdout, hist >>

\* Line 105: open('PWA_DEPLOYMENT_GUIDE_PRINTABLE.html', 'w') creates the
\* file or truncates it to length zero; when the path cannot be opened for
\* writing the call raises and the file is not touched.
OpenOut ==
    /\ pc = "open_out"
    /\ \/ /\ Advance("open_out", "write")
          /\ out' = File(<<>>)
          /\ handles' = handles \cup {"out"}
       \/ /\ Raise("open_out")
          /\ UNCHANGED << steps, out, handles >>
    /\ UNCHANGED << env, locals, stdout, hist >>

\* The lengths at which a partly written document is observed: nothing on
\* disk, the template head only, or everything but the template tail.
Cuts(doc) == {0, Len(TemplateHead), Len(doc) - Len(TemplateTail)}

\* The confirmation printed inside the with block, ahead of the write.
Write_Announces ==
    /\ pc = "write"
    /\ \/ /\ Advance("write", "close_out")
          /\ \E k \in Cuts(styled_html) \cup {Len(styled_html)} :
                out' = File(Prefix(styled_html, k))
          /\ UNCHANGED handles
       \/ /\ Raise("write")
          /\ \E k \in Cuts(styled_html) : out' = File(Prefix(styled_html, k))
          /\ handles' = handles \ {"out"}
          /\ UNCHANGED steps
    /\ stdout' = Append(stdout, Line1)
    /\ UNCHANGED << env, locals, hist >>

\* Line 106: f.write(styled_html).  The text goes through the handle's
\* buffer, so a prefix of it may be on disk when the call returns.  When
\* the call raises (an unencodable character, a full disk) a proper prefix
\* is on disk, and the exit of the with block closes the handle.
Write ==
    /\ pc = "write"
    /\ \/ /\ Advance("write", "close_out")
          /\ \E k \in Cuts(styled_html) \cup {Len(styled_html)} :
                out' = File(Prefix(styled_html, k))
          /\ UNCHANGED handles
       \/ /\ Raise("write")
          /\ \E k \in Cuts(styled_html) : out' = File(Prefix(styled_html, k))
          /\ handles' = handles \ {"out"}
          /\ UNCHANGED steps
    /\ UNCHANGED << env, locals, stdout, hist >>

\* Mode 'a' instead of 'w': the document is added to what the file held.
CloseOut_Append ==
    /\ pc = "close_out"
    /\ Advance("close_out", "print1")
    /\ out' = File(outAtStart.data \o styled_html)
    /\ handles' = handles \ {"out"}
    /\ UNCHANGED << env, locals, stdout, hist >>

\* Lines 105-106: leaving the with block flushes the buffer and closes the
\* write handle; a flush that fails (disk full) leaves a proper prefix, and
\* the handle is closed all the same.
CloseOut ==
    /\ pc = "close_out"
    /\ \/ /\ Advance("close_out", "print1")
          /\ out' = File(styled_html)
       \/ /\ Raise("close_out")
          /\ \E k \in Cuts(styled_html) :
                /\ k >= Len(out.data)
                /\ out' = File(Prefix(styled_html, k))
          /\ UNCHANGED steps
    /\ handles' = handles \ {"out"}
    /\ UNCHANGED << env, locals, stdout, hist >>

\* Line 108: print of the confirmation (raises when standard output cannot
\* encode or accept the line)
Print1 ==
    /\ pc = "print1"
    /\ \/ /\ Advance("print1", "print2")
          /\ stdout' = Append(stdout, Line1)
       \/ /\ Raise("print1")
          /\ UNCHANGED << steps, stdout >>
    /\ UNCHANGED << env, out, locals, handles, hist >>

\* Line 109: print of the instruction, then the end of the script: the
\* interpreter exits with status 0.
Print2 ==
    /\ pc = "print2"
    /\ \/ /\ pc' = "done"
          /\ steps' = Append(steps, "print2")
          /\ exitStatus' = 0
          /\ stdout' = Append(stdout, Line2)
          /\ lastOut' = IF lastOut.exists THEN lastOut ELSE out
          /\ UNCHANGED failedAt
       \/ /\ Raise("print2")
          /\ UNCHANGED << steps, stdout, lastOut >>
    /\ UNCHANGED << env, out, locals, handles, outAtStart >>

\* The script is invoked again: a new process with fresh variables and a
\* fresh standard output; the files are as they are found.
Rerun ==
    /\ pc \in {"done", "failed", "idle"}
    /\ pc' = "import"
    /\ md_content' = <<>>
    /\ html_content' = <<>>
    /\ styled_html' = <<>>
    /\ stdout' = <<>>
    /\ exitStatus' = -1
    /\ failedAt' = ""
    /\ steps' = <<>>
    /\ outAtStart' = out
    /\ UNCHANGED << env, out, handles, lastOut >>

\* The input text after a small edit: a block added at the end, or the last
\* block removed.
Edits(t) ==
    {Append(t, b) : b \in (IF Len(t) < MaxBlocks THEN Blocks ELSE {})}
        \cup (IF t = <<>> THEN {} ELSE {SubSeq(t, 1, Len(t) - 1)})

\* Between two runs, while no process of the script exists, the input file
\* is edited, removed, protected or restored.
EditInput ==
    /\ pc \in {"done", "failed", "idle"}
    /\ pc' = "idle"
    /\ \/ /\ inText' \in Edits(inText)
          /\ lastOut' = NoFile
          /\ UNCHANGED inState
       \/ /\ inState' \in InStates \ {inState}
          /\ UNCHANGED << inText, lastOut >>
    /\ md_content' = <<>>
    /\ html_content' = <<>>
    /\ styled_html' = <<>>
    /\ stdout' = <<>>
    /\ exitStatus' = -1
    /\ failedAt' = ""
    /\ steps' = <<>>
    /\ outAtStart' = out
    /\ UNCHANGED << out, handles >>

Next ==
    \/ Import
    \/ OpenIn
    \/ Read
    \/ CloseIn
    \/ RenderStep
    \/ Template
    \/ OpenOut
    \/ Write
    \/ CloseOut
    \/ Print1
    \/ Print2
    \/ Rerun
    \/ EditInput

Spec == Init /\ [][Next]_vars

\* The statements of one run of the script
Run ==
    \/ Import
    \/ OpenIn
    \/ Read
    \/ CloseIn
    \/ RenderStep
    \/ Template
    \/ OpenOut
    \/ Write
    \/ CloseOut
    \/ Print1
    \/ Print2

\* The interpreter executes the script to its end: a started run does not
\* stop between two statements.  Whether the script is invoked again, or the
\* input edited, is left open.
LiveSpec == Spec /\ WF_vars(Run)

\* ------------------------------------------------------------- type invariant
TypeOK ==
    /\ pc \in {"import", "open_in", "read", "close_in", "render", "template",
               "open_out", "write", "close_out", "print1", "print2",
               "done", "failed", "idle"}
    /\ inState \in InStates
    /\ inText \in Inputs
    /\ handles \subseteq {"in", "out"}
    /\ exitStatus \in {-1, 0, 1}
    /\ out.exists \in BOOLEAN
    /\ lastOut.exists \in BOOLEAN

\* --------------------------------------------------------------- properties
Ended == pc \in {"done", "failed"}

\* The output file has been written and its handle released (lines 105-106
\* are behind the run).
Written == pc \in {"print1", "print2", "done"}

\* The document the current input must produce
Expected == TemplateHead \o Render(inText) \o TemplateTail

\* C1: when the input file is missing or cannot be opened for reading, the
\* run ends with a non-zero status and the output file is exactly as it was
\* when the run started, whether it was absent or held any content.
C1_MissingInputLeavesOutput ==
    (Ended /\ inState # "ok") =>
        /\ exitStatus = 1
        /\ out = outAtStart

\* A run on a missing input has ended while the output file holds a
\* document written by an earlier run.
C1_Witness ==
    /\ pc = "failed"
    /\ failedAt = "open_in"
    /\ inState = "missing"
    /\ out.exists
    /\ Len(out.data) > Len(TemplateHead)

\* C2: after a run that failed in the output step (opening, writing or
\* flushing the output file) the output file is either exactly as it was
\* before the run or holds the complete new document.
C2_NoPartialOutput ==
    (pc = "failed" /\ failedAt \in {"open_out", "write", "close_out"}) =>
        \/ out = outAtStart
        \/ out = File(styled_html)

\* C3: a successful run on an input text that has not been edited since an
\* earlier successful run leaves the output file equal to the one that
\* earlier run left, whatever the file held in between or before.
C3_RerunSameOutput ==
    (Written /\ lastOut.exists) => out = lastOut

\* A later run on the unchanged input has written the output file, which
\* held something else (a partly written document, or nothing) at its start.
C3_Witness ==
    /\ pc = "print2"
    /\ lastOut.exists
    /\ outAtStart # lastOut

\* C4: after the output step has succeeded the output file holds exactly
\* the fixed template with the rendered fragment of the current input at
\* its substitution point; nothing of the previous content remains.
C4_OutputIsTemplateWithFragment ==
    Written =>
        /\ out = File(Expected)
        /\ md_content = inText
        /\ html_content = Render(inText)

\* A run on a non-empty input has succeeded over an output file that held
\* other content before.
C4_Witness ==
    /\ pc = "done"
    /\ inText # <<>>
    /\ outAtStart.exists
    /\ outAtStart.data # <<>>
    /\ outAtStart # out

\* Positions of the <body> opening tag in a document
BodyTags(doc) == {i \in 1..Len(doc) : doc[i] = "<body>"}

\* The fragment starts right after the template's line break behind the tag
\* at position i.
FragmentFollows(doc, frag, i) ==
    /\ i + 1 + Len(frag) <= Len(doc)
    /\ doc[i + 1] = "\n"
    /\ SubSeq(doc, i + 2, i + 1 + Len(frag)) = frag

\* C5 as stated: for any non-empty rendered fragment the written document
\* has exactly one <body> opening tag, and the fragment follows that tag.
C5_OneBodyTag ==
    (Written /\ html_content # <<>>) =>
        /\ Cardinality(BodyTags(out.data)) = 1
        /\ \A i \in BodyTags(out.data) : FragmentFollows(out.data, html_content, i)

\* C5 amended: for any non-empty rendered fragment that itself contains no
\* <body> opening tag, the written document has exactly one <body> opening
\* tag, and the fragment follows it after the template's single line break.
C5_OneBodyTagUnlessInFragment ==
    (Written /\ html_content # <<>> /\ Count("<body>", html_content) = 0) =>
        /\ Cardinality(BodyTags(out.data)) = 1
        /\ \A i \in BodyTags(out.data) : FragmentFollows(out.data, html_content, i)

\* A document has been written from a fragment of two paragraphs.
C5_Witness ==
    /\ pc = "done"
    /\ Len(html_content) > 1
    /\ Count("<body>", html_content) = 0

\* C6: a status line is on standard output only once the output file holds
\* the complete document and its handle is released; a run that failed at
\* the read, render or write step has emitted none; a successful run has
\* emitted exactly the confirmation and then the instruction.
C6_StatusLinesOnlyOnSuccess ==
    /\ stdout # <<>> =>
          /\ out = File(styled_html)
          /\ "out" \notin handles
          /\ \E i \in 1..Len(steps) : steps[i] = "close_out"
    /\ (pc = "failed" /\ failedAt \notin {"print1", "print2"}) => stdout = <<>>
    /\ pc = "done" => stdout = << Line1, Line2 >>
    /\ pc = "print2" => stdout = << Line1 >>

\* A run has failed in the output step with nothing printed.
C6_Witness ==
    /\ pc = "failed"
    /\ failedAt = "close_out"
    /\ stdout = <<>>

\* C7: a failure ends the run at once with a non-zero status: the completed
\* statements are exactly those before the failing one, and the status is
\* zero exactly when every statement up to the second print has completed.
C7_FailFast ==
    /\ pc = "failed" =>
          /\ exitStatus = 1
          /\ steps = SubSeq(StepOrder, 1, StepIndex(failedAt) - 1)
    /\ Ended => ((exitStatus = 0) <=> (steps = StepOrder))
    /\ (exitStatus = 0) => pc = "done"
    /\ (~Ended) => exitStatus = -1

\* A run has failed at the rendering step, after the read.
C7_Witness ==
    /\ pc = "failed"
    /\ failedAt = "render"
    /\ steps = << "import", "open_in", "read", "close_in" >>

\* C8 as stated: a run fails at the opening of the input file or at the
\* writing of the output file only; reading the content of the opened file,
\* rendering, filling the template and printing never end it in failure.
C8_TwoFailurePoints ==
    pc = "failed" =>
        failedAt \notin {"read", "render", "template", "print1", "print2"}

\* The statements that can raise: every call out of the script.
FailurePoints ==
    {"import", "open_in", "read", "render", "open_out", "write", "close_out",
     "print1", "print2"}

\* A run is at the next statement of the fixed order until it ends, it
\* fails at a failure point only, and it is done only after all statements.
C8_Structure ==
    /\ pc = "failed" => failedAt \in FailurePoints
    /\ pc \notin {"done", "failed", "idle"} =>
          /\ Len(steps) < Len(StepOrder)
          /\ pc = StepOrder[Len(steps) + 1]
          /\ steps = SubSeq(StepOrder, 1, Len(steps))
    /\ pc = "done" => steps = StepOrder

\* C8 amended: the run is one straight line of statements with one success
\* path; it can fail at the import, at the opening or the reading of the
\* input, at the rendering, at the opening, writing or flushing of the
\* output and at either print, and nowhere else (closing the input and
\* filling the template never fail); every started run ends, in the success
\* end state unless it failed at one of these points.
C8_StraightLine ==
    /\ []C8_Structure
    /\ (pc = "import") ~> (pc = "done" \/ (pc = "failed" /\ failedAt \in FailurePoints))

\* A run has failed while reading the content of the opened input file.
C8_Witness ==
    /\ pc = "failed"
    /\ failedAt = "read"

\* C9: at most one file handle is open at any time; the read handle is
\* released before rendering starts and before the write handle is
\* acquired; no handle is open when the run has ended.
C9_HandlesScoped ==
    /\ Cardinality(handles) <= 1
    /\ "in" \in handles => pc \in {"read", "close_in"}
    /\ "out" \in handles => pc \in {"write", "close_out"}
    /\ pc \in {"done", "failed", "idle"} => handles = {}

\* A run has ended by a failure that was raised while a handle was open.
C9_Witness ==
    /\ pc = "failed"
    /\ failedAt \in {"read", "write"}
    /\ handles = {}

\* C10: the output file is touched only after reading, rendering and
\* template filling have completed, so a run that fails while reading or
\* rendering leaves the output file as it was when the run started.
C10_OutputOpenedLast ==
    /\ (pc = "failed" /\ failedAt \in {"read", "render"}) => out = outAtStart
    /\ pc \in {"import", "open_in", "read", "close_in", "render", "template",
               "open_out"} => out = outAtStart
    /\ pc \in {"write", "close_out"} =>
          /\ md_content = inText
          /\ html_content = Render(md_content)
          /\ styled_html = StyledHtml(html_content)

\* A run has failed at the rendering step while the output file held a
\* document.
C10_Witness ==
    /\ pc = "failed"
    /\ failedAt = "render"
    /\ out.exists
    /\ out.data # <<>>

====
